---- MODULE Spec2Model ----
(***************************************************************************)
(* Model of producthunt-hot/extract-posts-project:                         *)
(*   generate-polished.py  URLResolver (_rate_limit, resolve_url),         *)
(*                         load_existing_ids, has_required_fields,         *)
(*                         process_posts                                   *)
(*   extract-posts.py      extract_post_objects                            *)
(*   extract-founders.py   extract_makers_object, process_post,            *)
(*                         extract_founders_from_csv                       *)
(* Time is counted in ticks, Second ticks to the second.                   *)
(***************************************************************************)
EXTENDS Integers, Sequences, FiniteSets, TLC

(***************************************************************************)
(* Bounds of the model                                                     *)
(***************************************************************************)
\* largest max_requests_per_second tried (click option --rate-limit)
MaxLimit == 2
\* number of _rate_limit calls in one behaviour of the limiter
MaxAdmits == 3
\* the caller stops idling between calls once the clock reaches this tick
MaxTime == 5
\* asyncio.sleep returns at the requested instant or up to MaxSlip ticks late
MaxSlip == 1

\* number of resolve_url calls in one behaviour of the resolver
MaxResolves == 1
\* number of lines of the input store
MaxInput == 2
\* number of runs of process_posts in one behaviour
MaxRuns == 2
\* number of tokens of the text handed to an extractor
MaxText == 5
\* number of rows of the input CSV of extract-founders
MaxPosts == 2
\* number of runs of extract_founders_from_csv in one behaviour
MaxFounderRuns == 2

\* ticks in the 1.0 s window of _rate_limit
Second == 4
\* resolve_url(ph_url, max_retries=2); process_posts passes no max_retries
max_retries == 2

VARIABLES
    clock,                    \* time.time(), in ticks
    max_requests_per_second,  \* URLResolver.max_requests_per_second
    request_times,            \* URLResolver.request_times
    admitted,                 \* history: instants at which _rate_limit returned
    rpc,                      \* position of the resolve_url call
    attempt,                  \* loop variable of resolve_url
    result,                   \* what the last resolve_url call returned
    events,                   \* history: admissions and network calls of the call
    resolves,                 \* number of resolve_url calls made so far
    replies,                  \* history: what each network call of the call met
    sleeps,                   \* history: the sleeps of the call
    input,                    \* the lines of input_file
    fexists,                  \* output_file.exists()
    file,                     \* the lines of output_file on disk
    buffer,                   \* lines written to csvfile and not yet flushed
    ppc,                      \* position of process_posts
    pos,                      \* index of the line the loop is at
    existing_ids,             \* existing_ids of the run
    counts,                   \* the five tallies of the run
    status,                   \* history: how each line of the run ended
    invoked,                  \* history: lines the resolver was invoked for
    added,                    \* history: lines that put their id in existing_ids
    seen,                     \* history: resolver outcomes seen for each line
    start,                    \* history: the output store when the run started
    ended,                    \* history: how the run ended
    prev,                     \* history: start and ended of the run before
    runs,                     \* number of runs started
    text,                     \* the text handed to an extractor, as tokens
    called,                   \* the extractor that was called on text
    scans,                    \* history: the brace-depth scans of the call
    out,                      \* what the call returned
    posts_csv,                \* the ph_id column of the input CSV of extract-founders
    founders_csv,             \* the output CSV of extract-founders
    fpc,                      \* position of extract_founders_from_csv
    processed_ph_ids,         \* processed_ph_ids of the run
    posts_to_process,         \* posts_to_process of the run (the ph_id of each)
    file_exists,              \* file_exists of the run
    done,                     \* number of posts the loop has finished
    result_row,               \* result of process_post, not yet saved
    fetched,                  \* history: the fetches of the run
    before,                   \* history: the rows of the output when the run started
    founder_runs              \* number of runs started

limiterVars == <<clock, max_requests_per_second, request_times, admitted>>
resolverVars == <<rpc, attempt, result, events, resolves, replies, sleeps>>
storeVars == <<fexists, file, buffer>>
runVars == <<ppc, pos, existing_ids, counts>>
historyVars == <<status, invoked, added, seen, start, ended, prev, runs>>
pipelineVars == <<input, storeVars, runVars, historyVars>>
extractVars == <<text, called, scans, out>>
foundersVars == <<posts_csv, founders_csv, fpc, processed_ph_ids,
                  posts_to_process, file_exists, done, result_row, fetched,
                  before, founder_runs>>
scriptVars == <<extractVars, foundersVars>>

vars == <<clock, max_requests_per_second, request_times, admitted,
          rpc, attempt, result, events, resolves, replies, sleeps,
          input, fexists, file, buffer, ppc, pos, existing_ids, counts,
          status, invoked, added, seen, start, ended, prev, runs,
          text, called, scans, out,
          posts_csv, founders_csv, fpc, processed_ph_ids, posts_to_process,
          file_exists, done, result_row, fetched, before, founder_runs>>

(***************************************************************************)
(* URLResolver.__init__                                                    *)
(***************************************************************************)
InitURLResolver ==
    /\ clock = 0
    /\ max_requests_per_second \in 1..MaxLimit
    /\ request_times = <<>>
    /\ admitted = <<>>

InitResolveIdle ==
    /\ rpc = "idle"
    /\ attempt = 0
    /\ result = "none"
    /\ events = <<>>
    /\ resolves = 0
    /\ replies = <<>>
    /\ sleeps = <<>>

\* no input store, no output store, no run of process_posts
InitNoPipeline ==
    /\ input = <<>>
    /\ fexists = FALSE
    /\ file = <<>>
    /\ buffer = <<>>
    /\ ppc = "idle"
    /\ pos = 0
    /\ existing_ids = {}
    /\ counts = [processed |-> 0, skipped_incomplete |-> 0,
                 skipped_duplicate |-> 0, skipped_url_failed |-> 0,
                 url_resolved |-> 0]
    /\ status = <<>>
    /\ invoked = {}
    /\ added = {}
    /\ seen = <<>>
    /\ start = [exists |-> FALSE, file |-> <<>>]
    /\ ended = "none"
    /\ prev = [exists |-> FALSE, file |-> <<>>, ended |-> "none"]
    /\ runs = 0

\* no extractor is called
InitNoExtract ==
    /\ text = <<>>
    /\ called = "none"
    /\ scans = <<>>
    /\ out = <<>>

NoRow == [ph_id |-> "", makers_object |-> "none"]

\* no input CSV, no output CSV, no run of extract_founders_from_csv
InitNoFounders ==
    /\ posts_csv = <<>>
    /\ founders_csv = [exists |-> FALSE, rows |-> <<>>]
    /\ fpc = "idle"
    /\ processed_ph_ids = {}
    /\ posts_to_process = <<>>
    /\ file_exists = FALSE
    /\ done = 0
    /\ result_row = NoRow
    /\ fetched = <<>>
    /\ before = <<>>
    /\ founder_runs = 0

InitNoScripts == InitNoExtract /\ InitNoFounders

InitLimiter ==
    InitURLResolver /\ InitResolveIdle /\ InitNoPipeline /\ InitNoScripts

(***************************************************************************)
(* URLResolver._rate_limit (FoundersExtractor._rate_limit is the same      *)
(* code).  now is read once; the list is filtered against now; when the    *)
(* list is full the call sleeps until the oldest kept entry is one second  *)
(* old; the value appended is now, the instant read BEFORE the sleep.      *)
(***************************************************************************)
KeptTimes(times, now) == SelectSeq(times, LAMBDA t : now - t < Second)

SleepTime(times, now, limit) ==
    IF Len(KeptTimes(times, now)) >= limit
    THEN Second - (now - KeptTimes(times, now)[1])
    ELSE 0

RecordedTimes(times, now) == Append(KeptTimes(times, now), now)

RateLimitStep(slip) ==
    LET now == clock
        sleep_time == SleepTime(request_times, now, max_requests_per_second)
    IN /\ clock' = IF sleep_time > 0 THEN now + sleep_time + slip ELSE now
       /\ request_times' = RecordedTimes(request_times, now)
       /\ admitted' = Append(admitted, clock')

\* a serialized caller calls _rate_limit
RateLimit ==
    /\ Len(admitted) < MaxAdmits
    /\ \E slip \in 0..MaxSlip : RateLimitStep(slip)
    /\ UNCHANGED <<max_requests_per_second, resolverVars, pipelineVars, scriptVars>>

\* time passes between two calls
Tick ==
    /\ clock < MaxTime
    /\ clock' = clock + 1
    /\ UNCHANGED <<max_requests_per_second, request_times, admitted,
                   resolverVars, pipelineVars, scriptVars>>

NextLimiter == RateLimit \/ Tick

SpecLimiter == InitLimiter /\ [][NextLimiter]_vars

(***************************************************************************)
(* URLResolver.resolve_url.  What the server does is an input of each      *)
(* network call: a response (status code, whether the final URL after      *)
(* redirects still starts with https://producthunt.com) or an exception    *)
(* (a name-resolution error or any other one).                             *)
(***************************************************************************)
Statuses == {200, 429, 404}

Replies ==
    [kind : {"response"}, status : Statuses, on_ph : BOOLEAN, dns : {FALSE}]
    \cup [kind : {"error"}, status : {0}, on_ph : {FALSE}, dns : BOOLEAN]

BackoffFlat(a) == 5 * Second

\* wait_time = (2 ** attempt) * 5
BackoffTime(a) == (2 ^ a) * 5 * Second

\* asyncio.sleep(0.5)
RetryDelay == Second \div 2

\* await asyncio.sleep(time), asked for after the network calls made so far
Slept(why, time) ==
    sleeps' = Append(sleeps, [why |-> why, time |-> time, after |-> Len(replies')])

\* return final_url / return None
ReturnFrom(value) ==
    /\ rpc' = "idle"
    /\ result' = value
    /\ UNCHANGED attempt

OneMoreAttempt ==
    IF attempt + 1 < max_retries + 1
    THEN /\ rpc' = "limit"
         /\ attempt' = attempt + 1
         /\ UNCHANGED result
    ELSE ReturnFrom("absent")

\* the loop goes on with the next attempt, or ends and None is returned
NextAttempt ==
    IF attempt + 1 < max_retries
    THEN /\ rpc' = "limit"
         /\ attempt' = attempt + 1
         /\ UNCHANGED result
    ELSE ReturnFrom("absent")

OnExceptionRetryAll(reply, slip) ==
    IF attempt = max_retries - 1
    THEN ReturnFrom("absent") /\ UNCHANGED <<clock, sleeps>>
    ELSE /\ clock' = clock + RetryDelay + slip
         /\ Slept("retry", RetryDelay)
         /\ NextAttempt

\* except Exception as e: ...
OnException(reply, slip) ==
    IF reply.dns
    THEN ReturnFrom("absent") /\ UNCHANGED <<clock, sleeps>>
    ELSE IF attempt = max_retries - 1
         THEN ReturnFrom("absent") /\ UNCHANGED <<clock, sleeps>>
         ELSE /\ clock' = clock + RetryDelay + slip
              /\ Slept("retry", RetryDelay)
              /\ NextAttempt

\* process_posts (or any caller) calls resolve_url
ResolveCall ==
    /\ rpc = "idle"
    /\ resolves < MaxResolves
    /\ resolves' = resolves + 1
    /\ events' = <<>>
    /\ replies' = <<>>
    /\ sleeps' = <<>>
    /\ attempt' = 0
    /\ result' = "pending"
    /\ 0 < max_retries
    /\ rpc' = "limit"
    /\ UNCHANGED <<limiterVars, pipelineVars, scriptVars>>

\* await self._rate_limit()
ResolveAdmit ==
    /\ rpc = "limit"
    /\ \E slip \in 0..MaxSlip : RateLimitStep(slip)
    /\ events' = Append(events, "admit")
    /\ replies' = replies
    /\ IF SleepTime(request_times, clock, max_requests_per_second) > 0
       THEN Slept("limit",
                  SleepTime(request_times, clock, max_requests_per_second))
       ELSE UNCHANGED sleeps
    /\ rpc' = "head"
    /\ UNCHANGED <<max_requests_per_second, attempt, result, resolves,
                   pipelineVars, scriptVars>>

\* response = await self.client.head(full_url), and what follows it up to
\* the next await
ResolveHead ==
    /\ rpc = "head"
    /\ events' = Append(events, "head")
    /\ \E reply \in Replies, slip \in 0..MaxSlip :
          /\ replies' = Append(replies, reply)
          /\ IF reply.kind = "error"
             THEN OnException(reply, slip)
             ELSE IF reply.status = 200 /\ ~reply.on_ph
                  THEN ReturnFrom("url") /\ UNCHANGED <<clock, sleeps>>
                  ELSE IF reply.status = 429
                       THEN /\ clock' = clock + BackoffTime(attempt) + slip
                            /\ Slept("backoff", BackoffTime(attempt))
                            /\ NextAttempt
                       ELSE IF reply.status = 200 /\ reply.on_ph
                            THEN /\ rpc' = "get"
                                 /\ UNCHANGED <<clock, sleeps, attempt, result>>
                            ELSE NextAttempt /\ UNCHANGED <<clock, sleeps>>
    /\ UNCHANGED <<max_requests_per_second, request_times, admitted, resolves,
                   pipelineVars, scriptVars>>

\* response = await self.client.get(full_url), and what follows it
ResolveGet ==
    /\ rpc = "get"
    /\ events' = Append(events, "get")
    /\ \E reply \in Replies, slip \in 0..MaxSlip :
          /\ replies' = Append(replies, reply)
          /\ IF reply.kind = "error"
             THEN OnException(reply, slip)
             ELSE IF ~reply.on_ph
                  THEN ReturnFrom("url") /\ UNCHANGED <<clock, sleeps>>
                  ELSE NextAttempt /\ UNCHANGED <<clock, sleeps>>
    /\ UNCHANGED <<max_requests_per_second, request_times, admitted, resolves,
                   pipelineVars, scriptVars>>

NextResolver ==
    \/ ResolveCall
    \/ ResolveAdmit
    \/ ResolveHead
    \/ ResolveGet
    \/ Tick

SpecResolver == InitLimiter /\ [][NextResolver]_vars

\* A call of resolve_url taken by itself: between its steps time passes by
\* its own sleeps only.  One flow of control runs the call and each of its
\* awaits ends: the sleeps are of computed, finite times, and the client of
\* __aenter__ has connect, read, write and pool timeouts, so head and get
\* return or raise.
NextResolverCall ==
    \/ ResolveCall
    \/ ResolveAdmit
    \/ ResolveHead
    \/ ResolveGet

SpecResolverFair ==
    /\ InitLimiter
    /\ [][NextResolverCall]_vars
    /\ WF_vars(ResolveAdmit \/ ResolveHead \/ ResolveGet)

(***************************************************************************)
(* The input store.  A line is blank, or fails orjson.loads, or parses to  *)
(* a JSON value that is not an object, or parses to an object.  Of an      *)
(* object the model keeps the value of "id" (an integer, a string, or no   *)
(* value) and whether name, tagline, createdAt and shortenedUrl are all    *)
(* present and truthy.                                                     *)
(***************************************************************************)
NoId == [t |-> "none", n |-> 0, s |-> ""]

JsonIds ==
    { [t |-> "int", n |-> 7, s |-> ""],
      [t |-> "int", n |-> 8, s |-> ""],
      [t |-> "str", n |-> 0, s |-> "07"] }

Lines ==
    { [kind |-> "blank", id |-> NoId, rest |-> FALSE],
      [kind |-> "garbage", id |-> NoId, rest |-> FALSE],
      [kind |-> "value", id |-> NoId, rest |-> FALSE],
      [kind |-> "object", id |-> NoId, rest |-> TRUE],
      [kind |-> "object", id |-> [t |-> "int", n |-> 7, s |-> ""], rest |-> FALSE] }
    \cup [kind : {"object"}, id : JsonIds, rest : {TRUE}]

Inputs == UNION { [1..n -> Lines] : n \in 0..MaxInput }

\* bool(post.get('id'))
Truthy(v) == (v.t = "int" /\ v.n # 0) \/ (v.t = "str" /\ v.s # "")

has_required_fields(post) == Truthy(post.id) /\ post.rest

\* str(n) of an integer
IntToText(n) == CASE n = 7 -> "7" [] n = 8 -> "8"

\* ph_id = str(post['id'])
PyStr(v) == IF v.t = "int" THEN IntToText(v.n) ELSE v.s

(***************************************************************************)
(* The output store.  A line is the header written by writeheader or a row *)
(* written by writerow; of a row the model keeps the ph_id column.         *)
(***************************************************************************)
Header == [ph_id |-> "ph_id", is_header |-> TRUE]

Row(ph_id) == [ph_id |-> ph_id, is_header |-> FALSE]

\* a flush that puts the buffered lines in front of the file
FlushedInFront(f, buf) == buf \o f

\* csvfile.flush() and the close() that ends the with block
Flushed(f, buf) == f \o buf

\* pd.read_csv infers the type of a column: when every field is an integer
\* literal the column is int64 and astype(str) gives the decimal form,
\* otherwise the fields stay the strings they are
IsIntText(s) == s \in {"7", "8", "07"}

TextToInt(s) == CASE s = "7" -> 7 [] s = "07" -> 7 [] s = "8" -> 8

ColumnAsStr(col) ==
    IF \A i \in DOMAIN col : IsIntText(col[i])
    THEN { IntToText(TextToInt(col[i])) : i \in DOMAIN col }
    ELSE { col[i] : i \in DOMAIN col }

\* load_existing_ids: no file gives set(); read_csv raises on an empty
\* file and df['ph_id'] raises when the first line, which read_csv takes
\* for the column names, is not the header: both give set() too
load_existing_ids(exists, f) ==
    IF ~exists THEN {}
    ELSE IF f = <<>> THEN {}
    ELSE IF ~f[1].is_header THEN {}
    ELSE ColumnAsStr([i \in 1..(Len(f) - 1) |-> f[i + 1].ph_id])

\* a duplicate check that never finds the identifier
NeverDuplicate(ph_id, ids) == FALSE

\* if ph_id in existing_ids
IsDuplicate(ph_id, ids) == ph_id \in ids

(***************************************************************************)
(* process_posts                                                           *)
(***************************************************************************)
InitPipeline ==
    /\ input \in Inputs
    /\ fexists = FALSE
    /\ file = <<>>
    /\ buffer = <<>>
    /\ ppc = "idle"
    /\ pos = 0
    /\ existing_ids = {}
    /\ counts = [processed |-> 0, skipped_incomplete |-> 0,
                 skipped_duplicate |-> 0, skipped_url_failed |-> 0,
                 url_resolved |-> 0]
    /\ status = [k \in DOMAIN input |-> "Pending"]
    /\ invoked = {}
    /\ added = {}
    /\ seen = [k \in DOMAIN input |-> {}]
    /\ start = [exists |-> FALSE, file |-> <<>>]
    /\ ended = "none"
    /\ prev = [exists |-> FALSE, file |-> <<>>, ended |-> "none"]
    /\ runs = 0

\* main(): one URLResolver, whose limiter this specification does not
\* exercise, and runs of process_posts over one input store
Init ==
    /\ InitURLResolver
    /\ max_requests_per_second = 1
    /\ InitResolveIdle
    /\ InitPipeline
    /\ InitNoScripts

\* lines 122-147: load the ids, open the output for appending (which
\* creates it), write the header into the file buffer when the file is new
StartRun ==
    /\ UNCHANGED <<limiterVars, resolverVars, scriptVars>>
    /\ ppc = "idle"
    /\ runs < MaxRuns
    /\ runs' = runs + 1
    /\ existing_ids' = load_existing_ids(fexists, file)
    /\ counts' = [processed |-> 0, skipped_incomplete |-> 0,
                  skipped_duplicate |-> 0, skipped_url_failed |-> 0,
                  url_resolved |-> 0]
    /\ fexists' = TRUE
    /\ buffer' = IF fexists THEN <<>> ELSE <<Header>>
    /\ pos' = 1
    /\ ppc' = "loop"
    /\ status' = [k \in DOMAIN input |-> "Pending"]
    /\ invoked' = {}
    /\ added' = {}
    /\ start' = [exists |-> fexists, file |-> file]
    /\ prev' = [exists |-> start.exists, file |-> start.file, ended |-> ended]
    /\ ended' = "none"
    /\ UNCHANGED <<input, file, seen>>

AtLine == ppc = "loop" /\ pos <= Len(input)

\* the loop has dealt with the line and goes to the next one
Skip(state) ==
    /\ status' = [status EXCEPT ![pos] = state]
    /\ pos' = pos + 1
    /\ UNCHANGED <<input, storeVars, ppc, existing_ids, invoked, added, seen,
                   start, ended, prev, runs>>

\* if not line: continue
SkipBlank ==
    /\ UNCHANGED <<limiterVars, resolverVars, scriptVars>>
    /\ AtLine
    /\ input[pos].kind = "blank"
    /\ Skip("Blank")
    /\ UNCHANGED counts

SkipUnparseableTallied ==
    /\ UNCHANGED <<limiterVars, resolverVars, scriptVars>>
    /\ AtLine
    /\ input[pos].kind = "garbage"
    /\ Skip("Unparseable")
    /\ counts' = [counts EXCEPT !.skipped_incomplete = @ + 1]

\* except Exception: pbar.update(1); continue
SkipUnparseable ==
    /\ UNCHANGED <<limiterVars, resolverVars, scriptVars>>
    /\ AtLine
    /\ input[pos].kind = "garbage"
    /\ Skip("Unparseable")
    /\ UNCHANGED counts

\* has_required_fields calls post.get on a value that has no get: the
\* AttributeError leaves process_posts through the with block, which
\* closes csvfile
AbortOnValue ==
    /\ UNCHANGED <<limiterVars, resolverVars, scriptVars>>
    /\ AtLine
    /\ input[pos].kind = "value"
    /\ file' = Flushed(file, buffer)
    /\ buffer' = <<>>
    /\ ppc' = "idle"
    /\ ended' = "aborted"
    /\ UNCHANGED <<input, fexists, pos, existing_ids, counts, status, invoked,
                   added, seen, start, prev, runs>>

\* if not has_required_fields(post)
SkipIncomplete ==
    /\ UNCHANGED <<limiterVars, resolverVars, scriptVars>>
    /\ AtLine
    /\ input[pos].kind = "object"
    /\ ~has_required_fields(input[pos])
    /\ counts' = [counts EXCEPT !.skipped_incomplete = @ + 1]
    /\ Skip("SkippedIncomplete")

\* if ph_id in existing_ids
SkipDuplicate ==
    /\ UNCHANGED <<limiterVars, resolverVars, scriptVars>>
    /\ AtLine
    /\ input[pos].kind = "object"
    /\ has_required_fields(input[pos])
    /\ IsDuplicate(PyStr(input[pos].id), existing_ids)
    /\ counts' = [counts EXCEPT !.skipped_duplicate = @ + 1]
    /\ Skip("SkippedDuplicate")

\* url = await resolver.resolve_url(post['shortenedUrl'])
CallResolver ==
    /\ UNCHANGED <<limiterVars, resolverVars, scriptVars>>
    /\ AtLine
    /\ input[pos].kind = "object"
    /\ has_required_fields(input[pos])
    /\ ~IsDuplicate(PyStr(input[pos].id), existing_ids)
    /\ ppc' = "resolving"
    /\ invoked' = invoked \cup {pos}
    /\ UNCHANGED <<input, storeVars, pos, existing_ids, counts, status, added,
                   seen, start, ended, prev, runs>>

\* resolve_url returned None (SpecResolver follows the call step by step)
ResolveFailed ==
    /\ UNCHANGED <<limiterVars, resolverVars, scriptVars>>
    /\ ppc = "resolving"
    /\ seen' = [seen EXCEPT ![pos] = @ \cup {"absent"}]
    /\ counts' = [counts EXCEPT !.skipped_url_failed = @ + 1]
    /\ status' = [status EXCEPT ![pos] = "SkippedResolutionFailed"]
    /\ pos' = pos + 1
    /\ ppc' = "loop"
    /\ UNCHANGED <<input, storeVars, existing_ids, invoked, added, start,
                   ended, prev, runs>>

\* resolve_url returned a URL: url_resolved += 1; writer.writerow(row)
WriteRow ==
    /\ UNCHANGED <<limiterVars, resolverVars, scriptVars>>
    /\ ppc = "resolving"
    /\ seen' = [seen EXCEPT ![pos] = @ \cup {"url"}]
    /\ counts' = [counts EXCEPT !.url_resolved = @ + 1]
    /\ buffer' = Append(buffer, Row(PyStr(input[pos].id)))
    /\ status' = [status EXCEPT ![pos] = "Written"]
    /\ ppc' = "written"
    /\ UNCHANGED <<input, fexists, file, pos, existing_ids, invoked, added,
                   start, ended, prev, runs>>

\* csvfile.flush(); existing_ids.add(ph_id); processed += 1
FlushRow ==
    /\ UNCHANGED <<limiterVars, resolverVars, scriptVars>>
    /\ ppc = "written"
    /\ file' = Flushed(file, buffer)
    /\ buffer' = <<>>
    /\ existing_ids' = existing_ids \cup {PyStr(input[pos].id)}
    /\ added' = added \cup {pos}
    /\ counts' = [counts EXCEPT !.processed = @ + 1]
    /\ status' = [status EXCEPT ![pos] = "Enriched"]
    /\ pos' = pos + 1
    /\ ppc' = "loop"
    /\ UNCHANGED <<input, fexists, invoked, seen, start, ended, prev, runs>>

\* the loop is over: the with block closes csvfile
FinishRun ==
    /\ UNCHANGED <<limiterVars, resolverVars, scriptVars>>
    /\ ppc = "loop"
    /\ pos > Len(input)
    /\ file' = Flushed(file, buffer)
    /\ buffer' = <<>>
    /\ ppc' = "idle"
    /\ ended' = "completed"
    /\ UNCHANGED <<input, fexists, pos, existing_ids, counts, status, invoked,
                   added, seen, start, prev, runs>>

\* the process is killed: what csvfile holds unflushed never reaches the
\* disk (a header or a row is far smaller than the file buffer, so none
\* of it was written through before)
Crash ==
    /\ UNCHANGED <<limiterVars, resolverVars, scriptVars>>
    /\ ppc # "idle"
    /\ buffer' = <<>>
    /\ ended' = CASE ppc = "loop" -> "crashed_loop"
                  [] ppc = "resolving" -> "crashed_resolving"
                  [] ppc = "written" -> "crashed_written"
    /\ ppc' = "idle"
    /\ UNCHANGED <<input, fexists, file, pos, existing_ids, counts, status,
                   invoked, added, seen, start, prev, runs>>

Next ==
    \/ StartRun
    \/ SkipBlank
    \/ SkipUnparseable
    \/ AbortOnValue
    \/ SkipIncomplete
    \/ SkipDuplicate
    \/ CallResolver
    \/ ResolveFailed
    \/ WriteRow
    \/ FlushRow
    \/ FinishRun
    \/ Crash

Spec == Init /\ [][Next]_vars

(***************************************************************************)
(* Counting timestamps in a rolling window [t, t + Second)                 *)
(***************************************************************************)
InWindow(times, t) ==
    Cardinality({j \in DOMAIN times : times[j] >= t /\ times[j] < t + Second})

\* C1: for any sequence of serialized _rate_limit calls with limit N, no
\* rolling 1-second window contains more than N of the instants at which
\* the calls returned.
C1_ReturnsBounded ==
    \A i \in DOMAIN admitted :
        InWindow(admitted, admitted[i]) <= max_requests_per_second

\* C2: no rolling 1-second window contains more than N of the timestamps
\* recorded in request_times, and request_times never holds more than N
\* entries.
C2_RecordedBounded ==
    /\ Len(request_times) <= max_requests_per_second
    /\ \A i \in DOMAIN request_times :
           InWindow(request_times, request_times[i]) <= max_requests_per_second

IsNetworkCall(e) == e \in {"head", "get"}

\* C3: in resolve_url every network call, HEAD probe or GET reissue, first
\* attempt or retry, comes right after a _rate_limit admission of its own,
\* made after the previous network call.
C3_EveryCallAdmitted ==
    \A i \in DOMAIN events :
        IsNetworkCall(events[i]) => (i > 1 /\ events[i - 1] = "admit")

(***************************************************************************)
(* The output store and the runs of process_posts                          *)
(***************************************************************************)
Rows(f) == SelectSeq(f, LAMBDA l : ~l.is_header)

EnrichedLines == {k \in DOMAIN input : status[k] = "Enriched"}

RECURSIVE RowsOfLines(_, _)
\* the rows of the lines of set S at index k or after, in input order
RowsOfLines(S, k) ==
    IF k > Len(input) THEN <<>>
    ELSE IF k \in S THEN <<Row(PyStr(input[k].id))>> \o RowsOfLines(S, k + 1)
    ELSE RowsOfLines(S, k + 1)

\* the resolver answered the same way every time it was asked about a line
SameOutcomes == \A k \in DOMAIN seen : Cardinality(seen[k]) <= 1

Crashes == {"crashed_loop", "crashed_resolving", "crashed_written"}

\* C4: no two rows of the output store share a ph_id, after any sequence
\* of complete or crashed runs.
C4_NoDuplicateIds ==
    \A i, j \in DOMAIN file :
        (i # j /\ ~file[i].is_header /\ ~file[j].is_header)
            => file[i].ph_id # file[j].ph_id

\* C5: when two runs in a row complete on the same input (the resolver
\* answering alike in both), the second run leaves the output store as the
\* first run left it: it appends no row.
C5_SecondRunAppendsNothing ==
    (prev.ended = "completed" /\ ended = "completed" /\ SameOutcomes)
        => file = start.file

\* the lines whose identifier is the ph_id of a row of f
LinesWrittenIn(f) ==
    {k \in DOMAIN input :
        /\ input[k].kind = "object"
        /\ has_required_fields(input[k])
        /\ \E i \in DOMAIN f : ~f[i].is_header /\ f[i].ph_id = PyStr(input[k].id)}

\* C6: a run killed at the top of the loop after it flushed at least one
\* row leaves the store it found (or the header), followed by exactly the
\* rows of the records it enriched; the next run invokes the resolver for
\* none of the records that have a row in the store.
C6_ResumeAfterFlush ==
    /\ (ended = "crashed_loop" /\ EnrichedLines # {})
           => file = (IF start.exists THEN start.file ELSE <<Header>>)
                       \o RowsOfLines(EnrichedLines, 1)
    /\ (prev.ended = "crashed_loop" /\ Len(start.file) > Len(prev.file))
           => invoked \cap LinesWrittenIn(start.file) = {}

RECURSIVE Uninterrupted(_, _)
\* what a run that nothing interrupts appends from line k on when its
\* dedup set is ids and the resolver answers as in seen; known is FALSE
\* when it asks about a line the resolver was never asked about
Uninterrupted(k, ids) ==
    IF k > Len(input) THEN [known |-> TRUE, rows |-> <<>>]
    ELSE IF input[k].kind # "object" \/ ~has_required_fields(input[k])
              \/ IsDuplicate(PyStr(input[k].id), ids)
         THEN Uninterrupted(k + 1, ids)
         ELSE IF seen[k] = {} THEN [known |-> FALSE, rows |-> <<>>]
         ELSE IF "url" \in seen[k]
              THEN LET rest == Uninterrupted(k + 1, ids \cup {PyStr(input[k].id)})
                   IN [known |-> rest.known,
                       rows |-> <<Row(PyStr(input[k].id))>> \o rest.rows]
              ELSE Uninterrupted(k + 1, ids)

UninterruptedFrom(exists, f) ==
    LET app == Uninterrupted(1, load_existing_ids(exists, f))
    IN [known |-> app.known,
        file |-> (IF exists THEN f ELSE <<Header>>) \o app.rows]

\* C7: a run killed at any point followed by a complete rerun (the
\* resolver answering alike) leaves the output store an uninterrupted run
\* from the same store leaves, and the kill loses at most the one record
\* that was written and not yet flushed.
C7_RerunEqualsUninterrupted ==
    /\ (prev.ended \in Crashes /\ ended = "completed" /\ SameOutcomes
          /\ UninterruptedFrom(prev.exists, prev.file).known)
           => file = UninterruptedFrom(prev.exists, prev.file).file
    /\ ended \in Crashes
           => Cardinality({k \in DOMAIN status : status[k] = "Written"}) <= 1

\* C8: the output store, once it has a line, begins with the header and
\* holds no other header: no run writes a second header or appends rows to
\* a file without one.
C8_OneHeaderFirst ==
    file # <<>> =>
        /\ file[1].is_header
        /\ \A i \in 2..Len(file) : ~file[i].is_header

\* C9: the rows one run has appended are the rows of the records that
\* reached Enriched, in the order of the input store.
C9_AppendedInInputOrder ==
    runs > 0 =>
        Rows(file) = Rows(start.file) \o RowsOfLines(EnrichedLines, 1)

\* a completed run that appended the rows of two records
C9_Witness ==
    /\ ended = "completed"
    /\ \E i, j \in DOMAIN input :
          /\ i < j
          /\ status[i] = "Enriched"
          /\ status[j] = "Enriched"
          /\ Len(Rows(file)) = Len(Rows(start.file)) + 2

Terminal ==
    {"SkippedIncomplete", "SkippedDuplicate", "SkippedResolutionFailed",
     "Enriched"}

\* the lines before k that put the identifier of line k in the dedup set
AddedBefore(k) ==
    {j \in added : j < k /\ PyStr(input[j].id) = PyStr(input[k].id)}

\* C10: every record the loop has dealt with is in exactly one of the four
\* terminal states; a row is appended and the identifier added to the
\* dedup set exactly for the records that are Enriched; the resolver is
\* invoked only for records that passed the required-field check and the
\* duplicate check.
C10_RecordStates ==
    /\ \A k \in DOMAIN input :
          input[k].kind = "object" =>
              /\ (runs > 0 /\ k < pos) => status[k] \in Terminal
              /\ k > pos => status[k] = "Pending"
              /\ status[k] \in {"Written", "Enriched", "SkippedResolutionFailed"}
                     => k \in invoked
              /\ status[k] \in {"SkippedIncomplete", "SkippedDuplicate"}
                     => k \notin invoked
    /\ added = EnrichedLines
    /\ Len(Rows(file)) = Len(Rows(start.file)) + Cardinality(EnrichedLines)
    /\ ppc # "idle" =>
          Len(Rows(buffer))
              = Cardinality({k \in DOMAIN status : status[k] = "Written"})
    /\ \A k \in invoked :
          /\ input[k].kind = "object"
          /\ has_required_fields(input[k])
          /\ PyStr(input[k].id)
                 \notin load_existing_ids(start.exists, start.file)
          /\ AddedBefore(k) = {}

\* a completed run that enriched a record and skipped a later line as a
\* duplicate of it
C10_Witness ==
    /\ ended = "completed"
    /\ \E i, j \in DOMAIN input :
          /\ i < j
          /\ status[i] = "Enriched"
          /\ status[j] = "SkippedDuplicate"
          /\ PyStr(input[i].id) = PyStr(input[j].id)

\* C11: no content of an input line aborts a run of process_posts: blank
\* lines, lines that fail to parse, lines that parse to a value that is not
\* an object and objects missing a required field are skipped and the run
\* goes on with the next line.
C11_NoLineAborts == ended # "aborted"

(***************************************************************************)
(* One call of resolve_url: its network calls, sleeps and return value     *)
(***************************************************************************)
Probes == SelectSeq(events, LAMBDA e : e = "head")

Reissues == SelectSeq(events, LAMBDA e : e = "get")

SleepsFor(why) == SelectSeq(sleeps, LAMBDA s : s.why = why)

Returned == rpc = "idle" /\ resolves > 0

Only429 ==
    /\ replies # <<>>
    /\ \A i \in 1..Len(replies) :
          replies[i].kind = "response" /\ replies[i].status = 429

\* C12: when every HEAD probe of a call of resolve_url answers 429, the
\* call sleeps 5 x 2^attempt seconds after the probe of attempt 0, 1, ...,
\* each wait longer than the one before, makes exactly max_retries probes,
\* no GET and no retry-delay sleep, and then returns absence.
C12_BackoffOn429 ==
    Only429 =>
        /\ Reissues = <<>>
        /\ SleepsFor("retry") = <<>>
        /\ Len(SleepsFor("backoff")) = Len(replies)
        /\ \A i \in 1..Len(replies) :
              /\ SleepsFor("backoff")[i].after = i
              /\ SleepsFor("backoff")[i].time = 5 * (2 ^ (i - 1)) * Second
              /\ i > 1 => SleepsFor("backoff")[i].time
                             > SleepsFor("backoff")[i - 1].time
        /\ Len(Probes) = Len(replies)
        /\ Len(replies) <= max_retries
        /\ rpc = "idle" <=> Len(replies) = max_retries
        /\ rpc = "idle" => result = "absent"

C12_Witness ==
    /\ Returned
    /\ Only429
    /\ Len(replies) = max_retries
    /\ Len(SleepsFor("backoff")) > 1

\* C13: a name-resolution error ends the call of resolve_url at once: it is
\* the last network call of the call, no sleep is made after it and absence
\* is returned, whatever attempts remain; on the first attempt that is one
\* network call.
C13_NameResolutionFailsFast ==
    \A i \in 1..Len(replies) :
        replies[i].dns =>
            /\ i = Len(replies)
            /\ Len(Probes) + Len(Reissues) = i
            /\ rpc = "idle"
            /\ result = "absent"
            /\ \A j \in 1..Len(sleeps) : sleeps[j].after < i

C13_Witness ==
    /\ Returned
    /\ Len(replies) = 1
    /\ replies[1].dns
    /\ attempt < max_retries - 1

C18_Bounded ==
    /\ Len(Probes) <= max_retries
    /\ Len(Reissues) <= max_retries
    /\ attempt < max_retries
    /\ \A j \in 1..Len(sleeps) :
          /\ sleeps[j].why = "limit" => sleeps[j].time \in 1..Second
          /\ sleeps[j].why = "retry" => 2 * sleeps[j].time = Second
          /\ sleeps[j].why = "backoff" =>
                \E a \in 0..(max_retries - 1) :
                    sleeps[j].time = 5 * (2 ^ a) * Second
    /\ Returned => result \in {"url", "absent"}

\* C18: every call of resolve_url ends, whatever the server answers: it
\* makes at most max_retries HEAD probes and at most max_retries GET
\* reissues, each sleep is a rate-limit wait in (0, 1] s, the 0.5 s retry
\* delay or a 5 x 2^attempt s backoff, and the call returns a URL or absence.
C18_Terminates ==
    /\ []C18_Bounded
    /\ (rpc # "idle") ~> Returned

C18_Witness ==
    /\ Returned
    /\ Len(Probes) = max_retries
    /\ Len(Reissues) = max_retries
    /\ sleeps # <<>>

(***************************************************************************)
(* extract-posts.py extract_post_objects and extract-founders.py           *)
(* extract_makers_object.  A text is a sequence of tokens.  A token is a   *)
(* character the scans tell apart ("{", "}", the quote "q", the backslash  *)
(* "b"), or the escaped quote "E" (a backslash and a quote), or "M", the   *)
(* search_pattern {"__typename":"Post" .  "K" is the key "makers": ; it    *)
(* stands in front of the text of a page that has the key: what a page     *)
(* holds before its first key plays no part (line 35), and a key further   *)
(* on is two quotes to the scan.  The functions work on the characters of  *)
(* the text; of the characters that are no brace, no quote and no          *)
(* backslash, "t" is __typename, "p" is Post, "m" is makers and "c" is the *)
(* colon.  Indexes start at 1 and 0 stands for find's -1.                  *)
(***************************************************************************)
Tokens == {"M", "{", "}", "q", "b", "E"}

search_pattern == <<"{", "q", "t", "q", "c", "q", "p", "q">>

makers_key == <<"q", "m", "q", "c">>

Chars(token) ==
    IF token = "M" THEN search_pattern
    ELSE IF token = "K" THEN makers_key
    ELSE IF token = "E" THEN <<"b", "q">>
    ELSE <<token>>

RECURSIVE Flatten(_)
Flatten(tokens) ==
    IF tokens = <<>> THEN <<>>
    ELSE Chars(Head(tokens)) \o Flatten(Tail(tokens))

Texts == UNION {[1..n -> Tokens] : n \in 0..MaxText}

\* str.find(sub, start)
IsAt(s, sub, i) ==
    /\ i + Len(sub) - 1 <= Len(s)
    /\ \A k \in 1..Len(sub) : s[i + k - 1] = sub[k]

RECURSIVE Find(_, _, _)
Find(s, sub, from) ==
    IF from + Len(sub) - 1 > Len(s) THEN 0
    ELSE IF IsAt(s, sub, from) THEN from
    ELSE Find(s, sub, from + 1)

(***************************************************************************)
(* orjson.loads and json.loads of a candidate object, as far as the        *)
(* characters of the model tell: an object is "{", then strings, objects   *)
(* and colons, then "}"; a string runs from a quote to the next  *)
(* quote that no backslash escapes, and a backslash in it escapes a quote  *)
(* or a backslash; a backslash or a bare word outside a string is no JSON. *)
(* StringEnd and ItemsEnd give the index of the closing quote and of the   *)
(* closing brace, 0 when there is none.                                    *)
(***************************************************************************)
RECURSIVE StringEnd(_, _)
StringEnd(s, i) ==
    IF i > Len(s) THEN 0
    ELSE IF s[i] = "q" THEN i
    ELSE IF s[i] = "b"
         THEN IF i + 1 <= Len(s) /\ s[i + 1] \in {"q", "b"}
              THEN StringEnd(s, i + 2)
              ELSE 0
         ELSE StringEnd(s, i + 1)

RECURSIVE ItemsEnd(_, _)
ItemsEnd(s, i) ==
    IF i > Len(s) THEN 0
    ELSE IF s[i] = "}" THEN i
    ELSE IF s[i] = "q"
         THEN LET quote == StringEnd(s, i + 1)
              IN IF quote = 0 THEN 0 ELSE ItemsEnd(s, quote + 1)
    ELSE IF s[i] = "{"
         THEN LET brace == ItemsEnd(s, i + 1)
              IN IF brace = 0 THEN 0 ELSE ItemsEnd(s, brace + 1)
    ELSE IF s[i] = "c" THEN ItemsEnd(s, i + 1)
    ELSE 0

\* the index at which the JSON object that starts at s[i] ends, 0 if none
ObjectEnd(s, i) ==
    IF i \in 1..Len(s) /\ s[i] = "{" THEN ItemsEnd(s, i + 1) ELSE 0

\* the value parsed: the characters with the escapes of the strings resolved
RECURSIVE Unescaped(_)
Unescaped(s) ==
    IF s = <<>> THEN <<>>
    ELSE IF Head(s) = "b" /\ Len(s) > 1
         THEN <<"e" \o s[2]>> \o Unescaped(SubSeq(s, 3, Len(s)))
         ELSE <<Head(s)>> \o Unescaped(Tail(s))

Loads(s) ==
    IF s # <<>> /\ ObjectEnd(s, 1) = Len(s)
    THEN [ok |-> TRUE, value |-> Unescaped(s)]
    ELSE [ok |-> FALSE, value |-> <<>>]

NotLoaded == [ok |-> FALSE, value |-> <<>>]

\* the scan of one occurrence: where it started, the index of the brace at
\* which the depth came back to 0 (0: never), and what loads made of it
Scan(s, from, to) ==
    [from |-> from, to |-> to,
     loaded |-> IF to = 0 THEN NotLoaded ELSE Loads(SubSeq(s, from, to))]

(***************************************************************************)
(* extract_post_objects                                                    *)
(***************************************************************************)
RECURSIVE PostScanEndBraces(_, _, _, _, _)
PostScanEndBraces(s, i, brace_count, in_string, escape_next) ==
    IF i > Len(s) THEN 0
    ELSE IF s[i] = "{"
         THEN PostScanEndBraces(s, i + 1, brace_count + 1, FALSE, FALSE)
    ELSE IF s[i] = "}"
         THEN IF brace_count - 1 = 0 THEN i
              ELSE PostScanEndBraces(s, i + 1, brace_count - 1, FALSE, FALSE)
    ELSE PostScanEndBraces(s, i + 1, brace_count, FALSE, FALSE)

\* the while loop of lines 40-77 from index i on: the index of the brace
\* that takes brace_count to 0, or 0 when the text ends first
RECURSIVE PostScanEnd(_, _, _, _, _)
PostScanEnd(s, i, brace_count, in_string, escape_next) ==
    IF i > Len(s) THEN 0
    ELSE IF escape_next
         THEN PostScanEnd(s, i + 1, brace_count, in_string, FALSE)
    ELSE IF s[i] = "b"
         THEN PostScanEnd(s, i + 1, brace_count, in_string, TRUE)
    ELSE IF s[i] = "q"
         THEN PostScanEnd(s, i + 1, brace_count, ~in_string, FALSE)
    ELSE IF ~in_string /\ s[i] = "{"
         THEN PostScanEnd(s, i + 1, brace_count + 1, in_string, FALSE)
    ELSE IF ~in_string /\ s[i] = "}"
         THEN IF brace_count - 1 = 0 THEN i
              ELSE PostScanEnd(s, i + 1, brace_count - 1, in_string, FALSE)
    ELSE PostScanEnd(s, i + 1, brace_count, in_string, FALSE)

NextStartPastObject(s, found, to) ==
    IF to = 0 THEN found + Len(search_pattern) ELSE to + 1

NextStartAfterScan(s, found, to) ==
    IF to = 0 THEN Len(s) + 1 ELSE found + Len(search_pattern)

\* start_pos = pos + len(search_pattern)
NextStart(s, found, to) == found + Len(search_pattern)

PostScansFirst(s, start_pos) ==
    LET found == Find(s, search_pattern, start_pos)
        to == PostScanEnd(s, found, 0, FALSE, FALSE)
    IN IF found = 0 THEN <<>> ELSE <<Scan(s, found, to)>>

\* the outer loop of lines 28-80: one scan for each occurrence found (pos)
RECURSIVE PostScans(_, _)
PostScans(s, start_pos) ==
    LET found == Find(s, search_pattern, start_pos)
        to == PostScanEnd(s, found, 0, FALSE, FALSE)
    IN IF found = 0 THEN <<>>
       ELSE <<Scan(s, found, to)>> \o PostScans(s, NextStart(s, found, to))

\* isinstance(post_obj, dict) and post_obj.get("__typename") == "Post"
IsPost(loaded) ==
    /\ loaded.ok
    /\ Len(loaded.value) >= Len(search_pattern)
    /\ SubSeq(loaded.value, 1, Len(search_pattern)) = search_pattern

extract_post_objects(s) ==
    SelectSeq(PostScans(s, 1), LAMBDA scan : IsPost(scan.loaded))

(***************************************************************************)
(* extract_makers_object                                                   *)
(***************************************************************************)
\* the for loop of lines 48-70 from index i on.  The scan starts on a "{"
\* outside a string, so brace_count is 0 after the loop only when the loop
\* broke on the closing brace: the test of line 72 is "the loop broke".
RECURSIVE MakersScanEnd(_, _, _, _, _)
MakersScanEnd(s, i, brace_count, in_string, escape_next) ==
    IF i > Len(s) THEN 0
    ELSE IF escape_next
         THEN MakersScanEnd(s, i + 1, brace_count, in_string, FALSE)
    ELSE IF s[i] = "b"
         THEN MakersScanEnd(s, i + 1, brace_count, in_string, TRUE)
    ELSE IF s[i] = "q"
         THEN MakersScanEnd(s, i + 1, brace_count, ~in_string, FALSE)
    ELSE IF ~in_string /\ s[i] = "{"
         THEN MakersScanEnd(s, i + 1, brace_count + 1, in_string, FALSE)
    ELSE IF ~in_string /\ s[i] = "}"
         THEN IF brace_count - 1 = 0 THEN i
              ELSE MakersScanEnd(s, i + 1, brace_count - 1, in_string, FALSE)
    ELSE MakersScanEnd(s, i + 1, brace_count, in_string, FALSE)

\* lines 25-46: the first "{" behind the first "makers": , 0 if none
brace_start(s) ==
    LET found == Find(s, makers_key, 1)
    IN IF found = 0 THEN 0 ELSE Find(s, <<"{">>, found + Len(makers_key))

MakersScans(s) ==
    LET from == brace_start(s)
    IN IF from = 0 THEN <<>>
       ELSE <<Scan(s, from, MakersScanEnd(s, from, 0, FALSE, FALSE))>>

\* the JSON text returned (json.dumps of the value parsed), or nothing
extract_makers_object(s) ==
    SelectSeq(MakersScans(s), LAMBDA scan : scan.loaded.ok)

(***************************************************************************)
(* A text is handed to one of the two functions                            *)
(***************************************************************************)
InitExtract ==
    /\ InitURLResolver
    /\ max_requests_per_second = 1
    /\ InitResolveIdle
    /\ InitNoPipeline
    /\ InitNoFounders
    /\ text \in Texts
    /\ called = "none"
    /\ scans = <<>>
    /\ out = <<>>

CallExtractPosts ==
    /\ called = "none"
    /\ called' = "extract_post_objects"
    /\ LET s == Flatten(text)
       IN /\ scans' = PostScans(s, 1)
          /\ out' = extract_post_objects(s)
    /\ UNCHANGED <<text, limiterVars, resolverVars, pipelineVars,
                   foundersVars>>

\* the page handed over is the text, or the text behind the key
CallExtractMakers ==
    /\ called = "none"
    /\ called' = "extract_makers_object"
    /\ \E lead \in {<<>>, <<"K">>} :
          LET s == Flatten(lead \o text)
          IN /\ text' = lead \o text
             /\ scans' = MakersScans(s)
             /\ out' = extract_makers_object(s)
    /\ UNCHANGED <<limiterVars, resolverVars, pipelineVars, foundersVars>>

NextExtract == CallExtractPosts \/ CallExtractMakers

SpecExtract == InitExtract /\ [][NextExtract]_vars

(***************************************************************************)
(* The two extractors                                                      *)
(***************************************************************************)
\* where a search_pattern starts
Occurrences(s) == {i \in 1..Len(s) : IsAt(s, search_pattern, i)}

\* where a well-formed target object starts
Targets(s) == {i \in Occurrences(s) : ObjectEnd(s, i) # 0}

NonOverlapping(s) ==
    \A i, j \in Targets(s) : i < j => ObjectEnd(s, i) < j

\* the scan that started at from ended at the closing brace of the
\* well-formed object that starts there
IsObjectScan(s, scan) ==
    LET end == ObjectEnd(s, scan.from)
    IN /\ end # 0
       /\ scan.to = end
       /\ scan.loaded = Loads(SubSeq(s, scan.from, scan.to))
       /\ scan.loaded.ok

C15_UnterminatedIsSkipped ==
    called = "extract_post_objects" =>
        LET s == Flatten(text)
            targets == Targets(s)
        IN /\ {scans[k].from : k \in 1..Len(scans)} = Occurrences(s)
           /\ \A k \in 1..Len(scans) :
                 scans[k].to = 0 =>
                     /\ \A n \in 1..Len(out) : out[n].from # scans[k].from
                     /\ \A j \in targets :
                           j > scans[k].from =>
                               \E n \in 1..Len(out) :
                                   /\ out[n].from = j
                                   /\ IsObjectScan(s, out[n])

C15_Witness ==
    /\ called = "extract_post_objects"
    /\ \E k \in 1..Len(scans) :
          /\ scans[k].to = 0
          /\ \E n \in 1..Len(out) : out[n].from > scans[k].from

BracesIn(s, scan, brace) ==
    Cardinality({i \in scan.from..scan.to : s[i] = brace})

\* C16: a scan of extract_post_objects or extract_makers_object that starts
\* at a well-formed object ends at the closing brace of that object, also
\* when strings of the object hold braces or escaped quotes.
C16_ScanEndsAtOwnBrace ==
    called # "none" =>
        LET s == Flatten(text)
        IN \A k \in 1..Len(scans) :
              ObjectEnd(s, scans[k].from) # 0 => IsObjectScan(s, scans[k])

\* an object returned that has a closing brace inside a string
C16_Witness ==
    /\ called = "extract_post_objects"
    /\ \E n \in 1..Len(out) :
          /\ IsObjectScan(Flatten(text), out[n])
          /\ BracesIn(Flatten(text), out[n], "}")
               > BracesIn(Flatten(text), out[n], "{")

(***************************************************************************)
(* extract-founders.py extract_founders_from_csv.  Of a row of the input   *)
(* and of the output CSV the model keeps the ph_id field, of an output row *)
(* also whether makers_object holds JSON text.  to_csv with header=True    *)
(* writes the column names with the row, so the output always starts with  *)
(* them; rows holds the rows behind them.  The ph_id fields are integer    *)
(* literals, as process_posts writes them for numeric ids.  What a fetch   *)
(* gives (no page, a page without a makers object, a page with one) is an  *)
(* input of process_post; its _rate_limit is the code of URLResolver's.    *)
(***************************************************************************)
PhIds == {"7", "8", "07"}

PostsCsvs == UNION {[1..n -> PhIds] : n \in 0..MaxPosts}

\* df = pd.read_csv(input_file) and str(post['ph_id']) of each record: the
\* type of the column is inferred as in load_existing_ids
ColumnTexts(col) ==
    IF \A i \in DOMAIN col : IsIntText(col[i])
    THEN [i \in DOMAIN col |-> IntToText(TextToInt(col[i]))]
    ELSE col

\* lines 176-183
ProcessedPhIds(csv) ==
    IF csv.exists
    THEN ColumnAsStr([i \in 1..Len(csv.rows) |-> csv.rows[i].ph_id])
    ELSE {}

AllPosts(posts, processed) == posts

\* [post for post in posts if str(post['ph_id']) not in processed_ph_ids]
NotProcessed(posts, processed) ==
    SelectSeq(posts, LAMBDA ph_id : ph_id \notin processed)

Outcomes == {"no_page", "no_makers", "makers"}

InitFounders ==
    /\ InitURLResolver
    /\ max_requests_per_second = 1
    /\ InitResolveIdle
    /\ InitNoPipeline
    /\ InitNoExtract
    /\ posts_csv \in PostsCsvs
    /\ founders_csv = [exists |-> FALSE, rows |-> <<>>]
    /\ fpc = "idle"
    /\ processed_ph_ids = {}
    /\ posts_to_process = <<>>
    /\ file_exists = FALSE
    /\ done = 0
    /\ result_row = NoRow
    /\ fetched = <<>>
    /\ before = <<>>
    /\ founder_runs = 0

\* lines 165-195: read the input, load the ids of the output, select the
\* posts, return when there is none
FoundersStart ==
    /\ fpc \in {"idle", "completed", "killed"}
    /\ founder_runs < MaxFounderRuns
    /\ founder_runs' = founder_runs + 1
    /\ processed_ph_ids' = ProcessedPhIds(founders_csv)
    /\ posts_to_process' =
           NotProcessed(ColumnTexts(posts_csv), processed_ph_ids')
    /\ IF posts_to_process' = <<>>
       THEN fpc' = "completed" /\ UNCHANGED file_exists
       ELSE fpc' = "post" /\ file_exists' = founders_csv.exists
    /\ done' = 0
    /\ result_row' = NoRow
    /\ fetched' = <<>>
    /\ before' = founders_csv.rows
    /\ UNCHANGED <<posts_csv, founders_csv, limiterVars, resolverVars,
                   pipelineVars, extractVars>>

\* result = await process_post(post_data, extractor)
FoundersFetch ==
    /\ fpc = "post"
    /\ \E outcome \in Outcomes :
          /\ result_row' =
                 [ph_id |-> posts_to_process[done + 1],
                  makers_object |->
                      IF outcome = "makers" THEN "json" ELSE "none"]
          /\ fetched' = Append(fetched, [ph_id |-> posts_to_process[done + 1],
                                         outcome |-> outcome])
    /\ fpc' = "save"
    /\ UNCHANGED <<posts_csv, founders_csv, processed_ph_ids,
                   posts_to_process, file_exists, done, before, founder_runs,
                   limiterVars, resolverVars, pipelineVars, extractVars>>

\* lines 203-213: to_csv appends the row, or writes the file anew with the
\* column names when file_exists is false; then the loop goes on or ends
FoundersSave ==
    /\ fpc = "save"
    /\ founders_csv' =
           [exists |-> TRUE,
            rows |-> (IF file_exists THEN founders_csv.rows ELSE <<>>)
                         \o <<result_row>>]
    /\ file_exists' = TRUE
    /\ done' = done + 1
    /\ result_row' = NoRow
    /\ fpc' = IF done + 1 = Len(posts_to_process) THEN "completed" ELSE "post"
    /\ UNCHANGED <<posts_csv, processed_ph_ids, posts_to_process, fetched,
                   before, founder_runs, limiterVars, resolverVars,
                   pipelineVars, extractVars>>

\* the process is killed at an await of the loop
FoundersKill ==
    /\ fpc \in {"post", "save"}
    /\ fpc' = "killed"
    /\ result_row' = NoRow
    /\ UNCHANGED <<posts_csv, founders_csv, processed_ph_ids,
                   posts_to_process, file_exists, done, fetched, before,
                   founder_runs, limiterVars, resolverVars, pipelineVars,
                   extractVars>>

NextFounders ==
    \/ FoundersStart
    \/ FoundersFetch
    \/ FoundersSave
    \/ FoundersKill

SpecFounders == InitFounders /\ [][NextFounders]_vars

\* C19: no two rows of the output store of extract_founders_from_csv have
\* the same ph_id, also when the input CSV lists a ph_id more than once
\* (the set of processed ids would grow with each row written).
C19_NoSharedPhId ==
    \A i, j \in 1..Len(founders_csv.rows) :
        i < j => founders_csv.rows[i].ph_id # founders_csv.rows[j].ph_id

LinesEnded(state) == {k \in DOMAIN input : status[k] = state}

NonBlankLines == {k \in DOMAIN input : input[k].kind # "blank"}

UnparseableLines == {k \in DOMAIN input : input[k].kind = "garbage"}

NestedTargets(s) ==
    {j \in Targets(s) :
        \E i \in Targets(s) : i < j /\ j < ObjectEnd(s, i)}

\* C22: extract_post_objects returns at most one object for an occurrence
\* of the pattern, each object starts at an occurrence, the objects come in
\* increasing order of start, and a target object that lies inside another
\* one is returned on its own as well, behind the object that holds it.
C22_OnePerOccurrenceNestedTwice ==
    called = "extract_post_objects" =>
        LET s == Flatten(text)
        IN /\ \A n \in 1..Len(out) : IsAt(s, search_pattern, out[n].from)
           /\ \A n \in 2..Len(out) : out[n - 1].from < out[n].from
           /\ \A j \in NestedTargets(s) :
                 \E m, n \in 1..Len(out) :
                     /\ m < n
                     /\ out[m].from < j
                     /\ j < out[m].to
                     /\ out[n].from = j
                     /\ IsObjectScan(s, out[n])

C22_Witness ==
    /\ called = "extract_post_objects"
    /\ NestedTargets(Flatten(text)) # {}
    /\ Len(out) = 2
    /\ out[1].from < out[2].from
    /\ out[2].to < out[1].to

\* the first "{" from index i on that is outside a string and that no
\* backslash escapes, 0 if there is none
RECURSIVE FirstOpenBrace(_, _, _, _)
FirstOpenBrace(s, i, in_string, escape_next) ==
    IF i > Len(s) THEN 0
    ELSE IF escape_next THEN FirstOpenBrace(s, i + 1, in_string, FALSE)
    ELSE IF s[i] = "b" THEN FirstOpenBrace(s, i + 1, in_string, TRUE)
    ELSE IF s[i] = "q" THEN FirstOpenBrace(s, i + 1, ~in_string, FALSE)
    ELSE IF s[i] = "{" /\ ~in_string THEN i
    ELSE FirstOpenBrace(s, i + 1, in_string, FALSE)

\* C23: the scan of extract_makers_object starts at the first "{" behind
\* the key that is outside a string and not escaped; a "{" inside a string
\* value behind the key is never the start of the scan.
C23_ScanStartsOutsideString ==
    called = "extract_makers_object" =>
        LET s == Flatten(text)
            key == Find(s, makers_key, 1)
        IN \A k \in 1..Len(scans) :
              scans[k].from =
                  FirstOpenBrace(s, key + Len(makers_key), FALSE, FALSE)

====
